---------------------------- MODULE Spec2Model ----------------------------
(***************************************************************************)
(* Voice pipeline backend: the bounded conversation memory                 *)
(* (backend/app/services/memory.py) and the ASR -> LLM -> TTS pipeline     *)
(* that uses it (backend/app/services/orchestrator.py, reached through     *)
(* backend/app/api/v1/endpoints/talk.py).                                  *)
(*                                                                         *)
(* Two specifications share the store's operators:                         *)
(*   SpecStore  one caller driving the ConversationStore API directly;     *)
(*   Spec       concurrent talk requests and reset calls going through     *)
(*              the endpoints and the Orchestrator.                        *)
(***************************************************************************)
EXTENDS Integers, Sequences, FiniteSets, TLC

(* ------------------------------ bounds --------------------------------- *)

\* largest max_turns a store is constructed with
MaxTurns == 2
\* append_turn calls recorded per run of the store API (SpecStore)
MaxAppends == 3
\* talk requests per run (Spec); each one runs once
NumReqs == 2
\* ids the caller of the store API lets uuid4 hand out per run (SpecStore)
MaxUuids == 1
\* the members of a JSON object, the items of a JSON array and the pieces of a
\* prose answer the generator writes at most
MaxEntries == 2
MaxItems == 3
MaxChunks == 4

(* ------------------------------ values --------------------------------- *)

\* Python's None for an Optional[str] argument
None == "<None>"
\* conversation ids a client sends on its own
ClientIds == {"a"}
UuidPool == <<"uuid-1", "uuid-2", "uuid-3", "uuid-4">>
\* the ids str(uuid.uuid4()) produces: one for each request at most
Uuids == {UuidPool[k] : k \in 1..NumReqs}
AllIds == ClientIds \cup Uuids
\* what the recognizer hears in the audio of the first, second, ... request
Heard == <<"t1", "t2", "t3", "t4">>
\* what generate_chat can return
Replies == {"r1", "r2"}
Reqs == 1..NumReqs
\* the (user_text, assistant_text) pairs append_turn is called with directly
TurnPairs == {<<"t1", "r1">>, <<"t2", "r2">>}

\* memory.py: Message = Tuple[str, str], (role, content)
Message(role, content) == <<role, content>>

Max(a, b) == IF a >= b THEN a ELSE b
Min(a, b) == IF a <= b THEN a ELSE b

\* Python's s[start:] for a list s and any integer start: a negative start
\* counts from the end, and start = -0 = 0 is the whole list
SliceFrom(s, start) ==
    LET from == IF start < 0 THEN Max(Len(s) + start, 0) ELSE Min(start, Len(s))
    IN  SubSeq(s, from + 1, Len(s))

\* the last n elements of s (all of s when it is shorter)
LastN(s, n) == SubSeq(s, Max(Len(s) - n, 0) + 1, Len(s))

\* Python truthiness of an Optional[str]: None and "" are falsy
Falsy(x) == x \in {None, ""}

(* --------------------------- ConversationStore -------------------------- *)
(* The dict _conversations is a function from the ids it holds to lists.   *)
(* A list handed to a caller is a record [val, alias]: val is the list's   *)
(* content and alias names the id whose stored list is this very object    *)
(* (NoAlias when the caller's list is an object of its own).               *)

NoAlias == "<own object>"
NoSnap == [val |-> <<>>, alias |-> "<no list held>"]

\* dict.setdefault(id, [])
setdefault(c, id) == IF id \in DOMAIN c THEN c ELSE c @@ (id :> <<>>)

\* str(uuid.uuid4()): an id no earlier call produced
uuid4(iss) == CHOOSE u \in Uuids : u \notin iss

\* ensure_conversation_id written with an assignment, _conversations[id] = [],
\* where the code has setdefault
ensure_conversation_id_Overwrite(c, iss, arg) ==
    LET id == IF Falsy(arg) THEN uuid4(iss) ELSE arg
    IN  [convs |-> [k \in DOMAIN c \cup {id} |-> IF k = id THEN <<>> ELSE c[k]],
         id |-> id]
\* ensure_conversation_id: the dict after the call and the id returned
ensure_conversation_id(c, iss, arg) ==
    LET id == IF Falsy(arg) THEN uuid4(iss) ELSE arg
    IN  [convs |-> setdefault(c, id), id |-> id]

\* the list append_turn has in hand after its two in-place appends
Appended(c, id, user_text, assistant_text) ==
    setdefault(c, id)[id]
        \o <<Message("user", user_text), Message("assistant", assistant_text)>>

\* append_turn that caps by keeping the first messages
append_turn_KeepOldest(c, mt, id, user_text, assistant_text) ==
    LET history == Appended(c, id, user_text, assistant_text)
    IN  [setdefault(c, id) EXCEPT ![id] =
            IF Len(history) > mt * 2 THEN SubSeq(history, 1, mt * 2) ELSE history]
\* append_turn that caps to the last max_turns messages, not pairs
append_turn_CapMessages(c, mt, id, user_text, assistant_text) ==
    LET history == Appended(c, id, user_text, assistant_text)
    IN  [setdefault(c, id) EXCEPT ![id] =
            IF Len(history) > mt * 2 THEN SliceFrom(history, -mt) ELSE history]
\* append_turn: the dict after the call
append_turn(c, mt, id, user_text, assistant_text) ==
    LET history == Appended(c, id, user_text, assistant_text)
    IN  [setdefault(c, id) EXCEPT ![id] =
            IF Len(history) > mt * 2 THEN SliceFrom(history, -(mt * 2)) ELSE history]

\* append_turn written with _conversations[id] where the code has setdefault:
\* KeyError for an id the dict does not hold
append_turn_raises_NoSetdefault(c, id) == id \notin DOMAIN c
\* whether append_turn raises: setdefault(id, []) never does
append_turn_raises(c, id) == FALSE

\* whether append_turn rebinds the id to a new list (the slice)
Rebinds(c, mt, id, user_text, assistant_text) ==
    Len(Appended(c, id, user_text, assistant_text)) > mt * 2

\* get_history that hands out the stored list itself
get_history_NoCopy(c, id) ==
    IF id \in DOMAIN c THEN [val |-> c[id], alias |-> id]
    ELSE [val |-> <<>>, alias |-> NoAlias]
\* the dict after get_history: dict.get leaves it alone
get_history_result(c, id) == c
\* get_history: list(...) of the stored list, or of a new [] for an unknown id
get_history(c, id) ==
    [val |-> IF id \in DOMAIN c THEN c[id] ELSE <<>>, alias |-> NoAlias]

\* reset written as pop(id) with no default: KeyError for an unknown id
reset_raises_NoDefault(c, id) == id \notin DOMAIN c
\* whether reset raises: pop(id, None) never does
reset_raises(c, id) == FALSE
\* reset: the dict after pop(id, None)
reset(c, id) == [k \in DOMAIN c \ {id} |-> c[k]]


(* ----------------- LLMService: the reply out of the raw text ------------ *)
(* A text is a sequence of symbols, each standing for the characters it is *)
(* written with: a word, a JSON literal, a punctuation mark, a blank, a    *)
(* line break or a whole thinking marker.                                  *)

Whitespace == {" ", "\n"}
OpenMarker == "<think>"
CloseMarker == "</think>"
Markers == {OpenMarker, CloseMarker}
\* the symbols made of word characters alone (the regexp class \w)
WordSymbols == {"a", "s", "plan", "FINAL", "final", "answer", "1", "null"}
Punctuation == {"{", "}", "[", "]", ",", ":", "\""}
Symbols == Whitespace \cup Markers \cup WordSymbols \cup Punctuation

\* Optional[str]: None, or a text
NoneStr == [none |-> TRUE, text |-> <<>>]
Some(t) == [none |-> FALSE, text |-> t]

\* str.lstrip, str.rstrip, str.strip
RECURSIVE lstrip(_)
lstrip(s) == IF s # <<>> /\ Head(s) \in Whitespace THEN lstrip(Tail(s)) ELSE s
RECURSIVE rstrip(_)
rstrip(s) ==
    IF s # <<>> /\ s[Len(s)] \in Whitespace THEN rstrip(SubSeq(s, 1, Len(s) - 1)) ELSE s
strip(s) == rstrip(lstrip(s))

\* the values json.loads builds: a str, an int, None, a list or a dict; a
\* dict is the sequence of its (key, value) entries in insertion order
JStr(t) == [type |-> "str", text |-> t, items |-> <<>>]
JNum == [type |-> "int", text |-> <<>>, items |-> <<>>]
JNull == [type |-> "NoneType", text |-> <<>>, items |-> <<>>]
JList(items) == [type |-> "list", text |-> <<>>, items |-> items]
JDict(entries) == [type |-> "dict", text |-> <<>>, items |-> entries]

\* d[k] = v: a key the dict holds keeps its place and takes the new value
dict_set(entries, k, v) ==
    IF \E i \in 1..Len(entries) : entries[i].k = k
    THEN [i \in 1..Len(entries) |->
             IF entries[i].k = k THEN [k |-> k, v |-> v] ELSE entries[i]]
    ELSE Append(entries, [k |-> k, v |-> v])

\* the decoder's outcomes: a value and the text after it, or JSONDecodeError
JFail == [ok |-> FALSE, val |-> JNull, rest |-> <<>>]
JOk(v, rest) == [ok |-> TRUE, val |-> v, rest |-> rest]

\* the index of the first symbol of s in S, or 0
RECURSIVE IndexIn(_, _)
IndexIn(s, S) ==
    IF s = <<>> THEN 0
    ELSE IF Head(s) \in S THEN 1
    ELSE LET k == IndexIn(Tail(s), S) IN IF k = 0 THEN 0 ELSE k + 1

\* a string literal, s starting after its opening quote: up to the closing
\* quote, a line break inside being an invalid control character
scan_string(s) ==
    LET q == IndexIn(s, {"\""})
    IN  IF q = 0 \/ "\n" \in {s[i] : i \in 1..(q - 1)} THEN JFail
        ELSE JOk(JStr(SubSeq(s, 1, q - 1)), SubSeq(s, q + 1, Len(s)))

\* a number: the digits as far as they go
RECURSIVE scan_number(_)
scan_number(s) == IF s # <<>> /\ Head(s) = "1" THEN scan_number(Tail(s)) ELSE JOk(JNum, s)

RECURSIVE scan_once(_), scan_array(_, _), scan_object(_, _)
\* one value at the start of s
scan_once(s) ==
    IF s = <<>> THEN JFail
    ELSE IF Head(s) = "\"" THEN scan_string(Tail(s))
    ELSE IF Head(s) = "{" THEN
        LET t == lstrip(Tail(s))
        IN  IF t # <<>> /\ Head(t) = "}" THEN JOk(JDict(<<>>), Tail(t))
            ELSE scan_object(t, <<>>)
    ELSE IF Head(s) = "[" THEN
        LET t == lstrip(Tail(s))
        IN  IF t # <<>> /\ Head(t) = "]" THEN JOk(JList(<<>>), Tail(t))
            ELSE scan_array(t, <<>>)
    ELSE IF Head(s) = "null" THEN JOk(JNull, Tail(s))
    ELSE IF Head(s) = "1" THEN scan_number(s)
    ELSE JFail
\* the items of an array from s on, values holding the items before
scan_array(s, values) ==
    LET item == scan_once(s)
        t == lstrip(item.rest)
    IN  IF ~ item.ok \/ t = <<>> THEN JFail
        ELSE IF Head(t) = "]" THEN JOk(JList(Append(values, item.val)), Tail(t))
        ELSE IF Head(t) = "," THEN scan_array(lstrip(Tail(t)), Append(values, item.val))
        ELSE JFail
\* the members of an object from s on, entries holding the members before
scan_object(s, entries) ==
    IF s = <<>> \/ Head(s) # "\"" THEN JFail
    ELSE LET key == scan_string(Tail(s))
             colon == lstrip(key.rest)
         IN  IF ~ key.ok \/ colon = <<>> \/ Head(colon) # ":" THEN JFail
             ELSE LET member == scan_once(lstrip(Tail(colon)))
                      t == lstrip(member.rest)
                      now == dict_set(entries, key.val.text, member.val)
                  IN  IF ~ member.ok \/ t = <<>> THEN JFail
                      ELSE IF Head(t) = "}" THEN JOk(JDict(now), Tail(t))
                      ELSE IF Head(t) = "," THEN scan_object(lstrip(Tail(t)), now)
                      ELSE JFail

\* json.loads(text): the whole text is one value between optional blanks
json_loads(text) ==
    LET out == scan_once(lstrip(text))
    IN  IF out.ok /\ lstrip(out.rest) = <<>> THEN out ELSE JFail

\* isinstance(val, str) and val.strip()
UsableStr(val) == val.type = "str" /\ strip(val.text) # <<>>

PreferredKeys == <<<<"final">>, <<"answer">>, <<"output">>, <<"response">>, <<"result">>>>

\* obj.get(key): the value under key, or None
dict_get(entries, key) ==
    IF \E i \in 1..Len(entries) : entries[i].k = key
    THEN entries[CHOOSE i \in 1..Len(entries) : entries[i].k = key].v
    ELSE JNull

\* the loop over the preferred keys, from the n-th on: the first usable string
RECURSIVE preferred_from(_, _)
preferred_from(entries, n) ==
    IF n > Len(PreferredKeys) THEN NoneStr
    ELSE LET val == dict_get(entries, PreferredKeys[n])
         IN  IF UsableStr(val) THEN Some(strip(val.text))
             ELSE preferred_from(entries, n + 1)
preferred(entries) == preferred_from(entries, 1)

\* the loop over obj.values(): the first usable string in insertion order
RECURSIVE first_string_value(_)
first_string_value(entries) ==
    IF entries = <<>> THEN NoneStr
    ELSE IF UsableStr(Head(entries).v) THEN Some(strip(Head(entries).v.text))
    ELSE first_string_value(Tail(entries))

\* the loop over a list that searches a dict item as a top-level dict is
\* searched: the preferred keys, then any value
RECURSIVE from_list_AnyDictValue(_)
from_list_AnyDictValue(items) ==
    IF items = <<>> THEN NoneStr
    ELSE LET item == Head(items)
             v == IF item.type # "dict" THEN NoneStr
                  ELSE IF ~ preferred(item.items).none THEN preferred(item.items)
                  ELSE first_string_value(item.items)
         IN  IF UsableStr(item) THEN Some(strip(item.text))
             ELSE IF ~ v.none THEN v
             ELSE from_list_AnyDictValue(Tail(items))
\* the loop over a list: the first usable string item, or the first usable
\* string a dict item holds under a preferred key, whichever item comes first
RECURSIVE from_list(_)
from_list(items) ==
    IF items = <<>> THEN NoneStr
    ELSE LET item == Head(items)
             v == IF item.type = "dict" THEN preferred(item.items) ELSE NoneStr
         IN  IF UsableStr(item) THEN Some(strip(item.text))
             ELSE IF ~ v.none THEN v
             ELSE from_list(Tail(items))

\* _parse_json_candidate that takes the first usable string of a dict in
\* insertion order, without the loop over the preferred keys
_parse_json_candidate_NoPreferredKeys(text) ==
    LET out == json_loads(text)
    IN  IF ~ out.ok THEN NoneStr
        ELSE IF out.val.type = "dict" THEN first_string_value(out.val.items)
        ELSE IF out.val.type = "list" THEN from_list(out.val.items)
        ELSE NoneStr
\* _parse_json_candidate
_parse_json_candidate(text) ==
    LET out == json_loads(text)
    IN  IF ~ out.ok THEN NoneStr
        ELSE IF out.val.type = "dict" THEN
            LET p == preferred(out.val.items)
            IN  IF ~ p.none THEN p ELSE first_string_value(out.val.items)
        ELSE IF out.val.type = "list" THEN from_list(out.val.items)
        ELSE NoneStr

\* re.sub of <think>.*?</think> by "": from the first opening marker that has
\* a closing marker after it, through the nearest one, again and again
RECURSIVE sub_think_blocks(_)
sub_think_blocks(s) ==
    LET open == IndexIn(s, {OpenMarker})
        close == IF open = 0 THEN 0 ELSE IndexIn(SubSeq(s, open + 1, Len(s)), {CloseMarker})
    IN  IF open = 0 \/ close = 0 THEN s
        ELSE SubSeq(s, 1, open - 1) \o sub_think_blocks(SubSeq(s, open + close + 1, Len(s)))
\* re.sub of </?think> by ""
sub_think_tags(s) == SelectSeq(s, LAMBDA x : x \notin Markers)
\* _strip_think_text
_strip_think_text(text) == strip(sub_think_tags(sub_think_blocks(text)))

\* the vocabulary of _looks_meta that the texts are written with
MetaWords == {"plan"}
\* _looks_meta: a word of the vocabulary between word boundaries (a marker
\* holds the word "think" between its brackets)
_looks_meta(s) ==
    \E i \in 1..Len(s) :
        \/ s[i] \in Markers
        \/ /\ s[i] \in MetaWords
           /\ i = 1 \/ s[i - 1] \notin WordSymbols
           /\ i = Len(s) \/ s[i + 1] \notin WordSymbols

\* the first index at or after i whose symbol is no blank (Len(s) + 1 if none)
RECURSIVE SkipBlanks(_, _)
SkipBlanks(s, i) == IF i <= Len(s) /\ s[i] \in Whitespace THEN SkipBlanks(s, i + 1) ELSE i
\* the index of the first line break at or after i (Len(s) + 1 if none)
RECURSIVE LineEnd(_, _)
LineEnd(s, i) == IF i <= Len(s) /\ s[i] # "\n" THEN LineEnd(s, i + 1) ELSE i

\* FINAL under the flag (?i)
FinalLabels == {"FINAL", "final"}
\* ^\s*FINAL\s*:\s*(.*)$ under (?m), tried at p: group 1, or None. Each \s*
\* takes the blanks, line breaks among them, as far as they go; (.*) takes the
\* rest of the line it starts on.
match_final_at(s, p) ==
    LET i == SkipBlanks(s, p)
        j == SkipBlanks(s, i + 1)
        k == SkipBlanks(s, j + 1)
    IN  IF /\ p = 1 \/ s[p - 1] = "\n"
           /\ i <= Len(s) /\ s[i] \in FinalLabels
           /\ j <= Len(s) /\ s[j] = ":"
        THEN Some(SubSeq(s, k, LineEnd(s, k) - 1))
        ELSE NoneStr
\* re.search: the match at the leftmost p that has one
RECURSIVE search_final_from(_, _)
search_final_from(s, p) ==
    IF p > Len(s) THEN NoneStr
    ELSE LET m == match_final_at(s, p)
         IN  IF ~ m.none THEN m ELSE search_final_from(s, p + 1)
\* re.split(r"\n\s*\n", s) from i on, the current part having begun at start:
\* a separator runs from a line break through the last line break of the
\* blanks that follow it
RECURSIVE split_paragraphs(_, _, _)
split_paragraphs(s, start, i) ==
    IF i > Len(s) THEN <<SubSeq(s, start, Len(s))>>
    ELSE LET breaks == {k \in (i + 1)..(SkipBlanks(s, i + 1) - 1) : s[k] = "\n"}
             last == CHOOSE k \in breaks : \A m \in breaks : m <= k
         IN  IF s[i] = "\n" /\ breaks # {}
             THEN <<SubSeq(s, start, i - 1)>> \o split_paragraphs(s, last + 1, last + 1)
             ELSE split_paragraphs(s, start, i + 1)

\* str.splitlines
RECURSIVE splitlines(_)
splitlines(s) ==
    LET e == LineEnd(s, 1)
    IN  IF s = <<>> THEN <<>>
        ELSE <<SubSeq(s, 1, e - 1)>> \o splitlines(SubSeq(s, e + 1, Len(s)))

\* [p.strip() for p in parts if p.strip()]
RECURSIVE stripped_nonblank(_)
stripped_nonblank(parts) ==
    IF parts = <<>> THEN <<>>
    ELSE (IF strip(Head(parts)) # <<>> THEN <<strip(Head(parts))>> ELSE <<>>)
            \o stripped_nonblank(Tail(parts))

\* the last element of parts that does not look meta, or None
last_non_meta(parts) ==
    LET good == {i \in 1..Len(parts) : ~ _looks_meta(parts[i])}
    IN  IF good = {} THEN NoneStr
        ELSE Some(parts[CHOOSE i \in good : \A m \in good : m <= i])

\* _extract_final with the search for the label put after the paragraphs
_extract_final_ParagraphsFirst(text) ==
    LET m == search_final_from(text, 1)
        parts == stripped_nonblank(split_paragraphs(text, 1, 1))
        lines == stripped_nonblank(splitlines(text))
    IN  IF text = <<>> THEN <<>>
        ELSE IF Len(parts) >= 2
        THEN (IF ~ last_non_meta(parts).none THEN last_non_meta(parts).text
              ELSE parts[Len(parts)])
        ELSE IF ~ m.none THEN strip(m.text)
        ELSE IF ~ last_non_meta(lines).none THEN last_non_meta(lines).text
        ELSE strip(text)
\* _extract_final
_extract_final(text) ==
    LET m == search_final_from(text, 1)
        parts == stripped_nonblank(split_paragraphs(text, 1, 1))
        lines == stripped_nonblank(splitlines(text))
    IN  IF text = <<>> THEN <<>>
        ELSE IF ~ m.none THEN strip(m.text)
        ELSE IF Len(parts) >= 2
        THEN (IF ~ last_non_meta(parts).none THEN last_non_meta(parts).text
              ELSE parts[Len(parts)])
        ELSE IF ~ last_non_meta(lines).none THEN last_non_meta(lines).text
        ELSE strip(text)

\* a or b on strings: a unless it is empty
Or(a, b) == IF a # <<>> THEN a ELSE b

(* ------------------------------- state ---------------------------------- *)

VARIABLES
    max_turns,        \* ConversationStore._max_turns
    conversations,    \* ConversationStore._conversations
    issued,           \* the ids uuid4 has produced so far
    log,              \* per id, every message append_turn added since the id
                      \* was last absent from the dict (history variable)
    snap,             \* SpecStore: the list the caller got from get_history
    ret,              \* SpecStore: what the last store call returned (or raised)
    pc,               \* Spec: where each talk request stands
    conversation_id,  \* talk's argument conversation_id
    transcript,       \* talk's local transcript
    conv_id,          \* talk's local conv_id
    history_msgs,     \* talk's local history_msgs
    reply_text,       \* talk's local reply_text
    messages,         \* the messages generate_chat posted to the chat endpoint
    spoken,           \* the text talk passed to synthesize_text
    calls,            \* the stages each request has invoked, in order
    result,           \* the TalkResult Orchestrator.talk returned
    response,         \* the HTTP response the talk endpoint gave
    content,          \* SpecExtract: the message content the chat endpoint returned
    raw_text,         \* generate_chat's local raw_text
    parsed,           \* generate_chat's local parsed
    cleaned,          \* generate_chat's local cleaned
    final,            \* generate_chat's local final
    returned,         \* what generate_chat returned, once it has
    at,               \* SpecExtract: the local generate_chat has computed last
    piper_path,       \* TTSService._piper_path
    voice_model_path, \* TTSService._voice_model_path
    app_state,        \* "starting" until lifespan yields, then "serving"
    warnings,         \* what lifespan logged with logger.warning
    backends,         \* per request, the engines synthesize_text has invoked
    reset_seen        \* per request, whether its conversation was reset while
                      \* its generation call was pending (history variable)

storeVars == <<max_turns, conversations, issued, log>>
callerVars == <<snap, ret>>
reqVars == <<pc, conversation_id, transcript, conv_id, history_msgs, reply_text,
             messages, spoken, calls, result, response>>
vars == <<max_turns, conversations, issued, log, snap, ret, pc, conversation_id,
          transcript, conv_id, history_msgs, reply_text, messages, spoken, calls,
          result, response, content, raw_text, parsed, cleaned, final, returned, at,
          piper_path, voice_model_path, app_state, warnings, backends, reset_seen>>
extractVars == <<content, raw_text, parsed, cleaned, final, returned, at>>
appVars == <<piper_path, voice_model_path, app_state, warnings>>

\* ret when the last call raised KeyError
KeyError == "<KeyError>"
NoResult == [kind |-> "none"]
NoResponse == [status |-> 0]
NoText == "<unset>"

\* the messages logged over all ids
TotalLogged == LET RECURSIVE Sum(_)
                   Sum(S) == IF S = {} THEN 0
                             ELSE LET x == CHOOSE y \in S : TRUE
                                  IN  Len(log[x]) + Sum(S \ {x})
               IN  Sum(AllIds)

\* ConversationStore.__init__ with max_turns = mt; no request received yet
NoRequests(mt) ==
    /\ max_turns = mt
    /\ conversations = <<>>
    /\ issued = {}
    /\ log = [id \in AllIds |-> <<>>]
    /\ snap = NoSnap
    /\ ret = None
    /\ pc = [r \in Reqs |-> "idle"]
    /\ conversation_id = [r \in Reqs |-> None]
    /\ transcript = [r \in Reqs |-> NoText]
    /\ conv_id = [r \in Reqs |-> None]
    /\ history_msgs = [r \in Reqs |-> <<>>]
    /\ reply_text = [r \in Reqs |-> NoText]
    /\ messages = [r \in Reqs |-> <<>>]
    /\ spoken = [r \in Reqs |-> NoText]
    /\ calls = [r \in Reqs |-> <<>>]
    /\ result = [r \in Reqs |-> NoResult]
    /\ response = [r \in Reqs |-> NoResponse]
    /\ backends = [r \in Reqs |-> <<>>]
    /\ reset_seen = [r \in Reqs |-> FALSE]

\* the Orchestrator lifespan built from the default settings (PIPER_PATH
\* "piper", PIPER_VOICE_PATH unset), with a store of max_turns = mt, serving
InitOrchestrator(mt) ==
    /\ NoRequests(mt)
    /\ piper_path = "piper"
    /\ voice_model_path = ""
    /\ app_state = "serving"
    /\ warnings = <<>>

\* generate_chat not under way
NoChat ==
    /\ content = <<>>
    /\ raw_text = <<>>
    /\ parsed = NoneStr
    /\ cleaned = <<>>
    /\ final = <<>>
    /\ returned = NoneStr
    /\ at = "idle"

InitWith(mt) == InitOrchestrator(mt) /\ NoChat

(* ------------------- SpecStore: the store API, called directly ---------- *)

\* a store built with any max_turns in 0..MaxTurns
InitStore == \E mt \in 0..MaxTurns : InitWith(mt)

\* the ids a caller can name: its own and the ones ensure_conversation_id returned
KnownIds == ClientIds \cup issued

\* ensure_conversation_id(arg)
StoreEnsure(arg) ==
    /\ Falsy(arg) => Cardinality(issued) < MaxUuids
    /\ LET out == ensure_conversation_id(conversations, issued, arg)
       IN  /\ conversations' = out.convs
           /\ issued' = IF Falsy(arg) THEN issued \cup {out.id} ELSE issued
           /\ ret' = out.id
    /\ UNCHANGED <<max_turns, log, snap, reqVars, extractVars, appVars, backends, reset_seen>>

\* append_turn(id, user_text, assistant_text); a list the caller holds
\* changes with it only if it is the stored list itself
StoreAppend(id, user_text, assistant_text) ==
    /\ TotalLogged < 2 * MaxAppends
    /\ conversations' = append_turn(conversations, max_turns, id, user_text, assistant_text)
    /\ log' = [log EXCEPT ![id] = @ \o <<Message("user", user_text),
                                         Message("assistant", assistant_text)>>]
    /\ snap' = IF snap.alias = id
               THEN [val |-> Appended(conversations, id, user_text, assistant_text),
                     alias |-> IF Rebinds(conversations, max_turns, id, user_text, assistant_text)
                               THEN NoAlias ELSE id]
               ELSE snap
    /\ ret' = None
    /\ UNCHANGED <<max_turns, issued, reqVars, extractVars, appVars, backends, reset_seen>>

\* get_history(id): the caller keeps the returned list
StoreGetHistory(id) ==
    /\ snap' = get_history(conversations, id)
    /\ conversations' = get_history_result(conversations, id)
    /\ ret' = None
    /\ UNCHANGED <<max_turns, issued, log, reqVars, extractVars, appVars, backends, reset_seen>>

\* reset(id)
StoreReset(id) ==
    /\ IF reset_raises(conversations, id)
       THEN /\ ret' = KeyError
            /\ UNCHANGED <<conversations, log, snap>>
       ELSE /\ conversations' = reset(conversations, id)
            /\ log' = [log EXCEPT ![id] = <<>>]
            /\ snap' = IF snap.alias = id THEN [snap EXCEPT !.alias = NoAlias] ELSE snap
            /\ ret' = None
    /\ UNCHANGED <<max_turns, issued, reqVars, extractVars, appVars, backends, reset_seen>>

\* what a caller can do to the list it holds
Mutations == {"clear", "append"}
Junk == Message("user", "junk")
Mutated(val, m) == IF m = "clear" THEN <<>> ELSE Append(val, Junk)

\* the caller changes, in place, the list get_history returned
MutateSnapshot(m) ==
    /\ snap # NoSnap
    /\ m = "clear" => snap.val # <<>>
    /\ m = "append" => \A i \in 1..Len(snap.val) : snap.val[i] # Junk
    /\ snap' = [snap EXCEPT !.val = Mutated(snap.val, m)]
    /\ conversations' = IF snap.alias \in DOMAIN conversations
                        THEN [conversations EXCEPT ![snap.alias] = Mutated(snap.val, m)]
                        ELSE conversations
    /\ ret' = None
    /\ UNCHANGED <<max_turns, issued, log, reqVars, extractVars, appVars, backends, reset_seen>>

NextStore ==
    \/ \E arg \in KnownIds \cup {None, ""} : StoreEnsure(arg)
    \/ \E id \in KnownIds, p \in TurnPairs : StoreAppend(id, p[1], p[2])
    \/ \E id \in KnownIds : StoreGetHistory(id)
    \/ \E id \in KnownIds : StoreReset(id)
    \/ \E m \in Mutations : MutateSnapshot(m)

SpecStore == InitStore /\ [][NextStore]_vars

(* ------------------- TTSService and the app's startup -------------------- *)

\* ConversationStore(max_turns=20) in lifespan
DefaultMaxTurns == 20
\* the voice model files on the disk
ModelFiles == {"voice.onnx"}
\* validate raising ValueError
ValueError == "<ValueError>"

\* TTSService.validate: None, or the ValueError it raises
validate(pp, vp) ==
    IF vp # "" /\ (pp = "" \/ vp \notin ModelFiles) THEN ValueError ELSE None

\* synthesize_text looking for the model file before it picks Piper
synthesize_text_engine_IfModelExists(vp) == IF vp \in ModelFiles THEN "piper" ELSE "say"
\* synthesize_text: Piper if a voice model path is configured, else macOS say
synthesize_text_engine(vp) == IF vp # "" THEN "piper" ELSE "say"

\* whether the engine can hand back WAV bytes: subprocess.run cannot start an
\* executable with an empty path, and Piper exits non-zero without its model;
\* say and afconvert depend on the platform alone
engine_can_return(engine, pp, vp) ==
    engine = "say" \/ (pp # "" /\ vp \in ModelFiles)

\* PIPER_PATH and PIPER_VOICE_PATH as the environment can set them
Settings ==
    {[piper_path |-> "piper", piper_voice_path |-> ""],
     [piper_path |-> "",      piper_voice_path |-> ""],
     [piper_path |-> "piper", piper_voice_path |-> "voice.onnx"],
     [piper_path |-> "piper", piper_voice_path |-> "missing.onnx"],
     [piper_path |-> "",      piper_voice_path |-> "voice.onnx"]}

\* the process has started, lifespan has not run yet
InitApp ==
    \E settings \in Settings :
        /\ NoRequests(DefaultMaxTurns)
        /\ NoChat
        /\ piper_path = settings.piper_path
        /\ voice_model_path = settings.piper_voice_path
        /\ app_state = "starting"
        /\ warnings = <<>>

\* lifespan that leaves tts.validate() out
Lifespan_SkipValidate ==
    /\ app_state = "starting"
    /\ app_state' = "serving"
    /\ UNCHANGED <<storeVars, callerVars, reqVars, extractVars, piper_path,
                   voice_model_path, warnings, backends, reset_seen>>
\* lifespan up to its yield: tts.validate() inside try/except, the exception
\* logged as a warning, the Orchestrator built with that TTSService
Lifespan ==
    /\ app_state = "starting"
    /\ warnings' = IF validate(piper_path, voice_model_path) = ValueError
                   THEN Append(warnings, "TTS validation failed")
                   ELSE warnings
    /\ app_state' = "serving"
    /\ UNCHANGED <<storeVars, callerVars, reqVars, extractVars, piper_path,
                   voice_model_path, backends, reset_seen>>

(* ------------- Spec: talk requests through the Orchestrator -------------- *)
(* A request's pc follows the pipeline's states: RECEIVED while the         *)
(* recognizer runs, TRANSCRIBED while the generator runs, REPLIED while     *)
(* synthesis runs, SYNTHESIZED once Orchestrator.talk has returned its      *)
(* TalkResult, DONE once the endpoint has answered; FAILED when a stage     *)
(* raised. The awaits are the only places where requests interleave, so     *)
(* each action runs from one await to the next.                             *)

\* main.py builds ConversationStore(max_turns=20); the model takes small caps
InitTalk == \E mt \in 1..MaxTurns : InitWith(mt)

\* orchestrator.py: [{"role": role, "content": content} for role, content in history_pairs]
HistoryMsgs(history_pairs) ==
    [i \in 1..Len(history_pairs) |->
        [role |-> history_pairs[i][1], content |-> history_pairs[i][2]]]

\* TalkResult(transcript, reply_text, audio_wav_bytes, conversation_id)
TalkResult(t, reply, audio, id) ==
    [kind |-> "TalkResult", transcript |-> t, reply_text |-> reply,
     audio_wav_bytes |-> audio, conversation_id |-> id]

\* the endpoint's except branch: HTTPException(status_code=500, detail=str(exc))
ErrorResponse(stage) == [status |-> 500, detail |-> stage]

\* a failed request: the exception leaves talk, its locals are gone
Fail(r, stage) ==
    /\ pc' = [pc EXCEPT ![r] = "FAILED"]
    /\ response' = [response EXCEPT ![r] = ErrorResponse(stage)]
    /\ transcript' = [transcript EXCEPT ![r] = NoText]
    /\ conv_id' = [conv_id EXCEPT ![r] = None]
    /\ history_msgs' = [history_msgs EXCEPT ![r] = <<>>]
    /\ reply_text' = [reply_text EXCEPT ![r] = NoText]
    /\ messages' = [messages EXCEPT ![r] = <<>>]
    /\ spoken' = [spoken EXCEPT ![r] = NoText]
    /\ reset_seen' = [reset_seen EXCEPT ![r] = FALSE]
    /\ UNCHANGED <<storeVars, callerVars, extractVars, appVars, backends, conversation_id, calls, result>>

\* talk resolving the conversation id before it awaits the recognizer
Talk_ResolveFirst(r, cid) ==
    /\ app_state = "serving"
    /\ pc[r] = "idle"
    /\ \A q \in Reqs : q < r => pc[q] # "idle"
    /\ pc' = [pc EXCEPT ![r] = "RECEIVED"]
    /\ conversation_id' = [conversation_id EXCEPT ![r] = cid]
    /\ calls' = [calls EXCEPT ![r] = <<"asr">>]
    /\ conversations' = ensure_conversation_id(conversations, issued, cid).convs
    /\ UNCHANGED <<max_turns, issued, log, callerVars, extractVars, appVars, backends, reset_seen, transcript, conv_id,
                   history_msgs, reply_text, messages, spoken, result, response>>
\* POST /talk with form field conversation_id = cid: the endpoint calls
\* Orchestrator.talk, which awaits the recognizer before anything else
Talk(r, cid) ==
    /\ app_state = "serving"
    /\ pc[r] = "idle"
    /\ \A q \in Reqs : q < r => pc[q] # "idle"
    /\ pc' = [pc EXCEPT ![r] = "RECEIVED"]
    /\ conversation_id' = [conversation_id EXCEPT ![r] = cid]
    /\ calls' = [calls EXCEPT ![r] = <<"asr">>]
    /\ UNCHANGED <<storeVars, callerVars, extractVars, appVars, backends, reset_seen, transcript, conv_id, history_msgs,
                   reply_text, messages, spoken, result, response>>

\* generate_chat: the system message, then the history, then the user message
SystemMessage == [role |-> "system", content |-> "builtin_guard"]
\* generate_chat without its messages.extend(history)
ChatMessages_NoHistory(history, user_message) ==
    <<SystemMessage, [role |-> "user", content |-> user_message]>>
ChatMessages(history, user_message) ==
    <<SystemMessage>> \o history \o <<[role |-> "user", content |-> user_message]>>

\* the recognizer returns its text: resolve the id, fetch the history, call
\* generate_chat, which posts its messages and awaits the generator
AsrReturn(r) ==
    /\ pc[r] = "RECEIVED"
    /\ LET out == ensure_conversation_id(conversations, issued, conversation_id[r])
       IN  /\ conversations' = get_history_result(out.convs, out.id)
           /\ issued' = IF Falsy(conversation_id[r]) THEN issued \cup {out.id} ELSE issued
           /\ conv_id' = [conv_id EXCEPT ![r] = out.id]
           /\ history_msgs' = [history_msgs EXCEPT ![r] =
                                  HistoryMsgs(get_history(out.convs, out.id).val)]
    /\ transcript' = [transcript EXCEPT ![r] = Heard[r]]
    /\ messages' = [messages EXCEPT ![r] = ChatMessages(history_msgs'[r], Heard[r])]
    /\ conversation_id' = [conversation_id EXCEPT ![r] = None]
    /\ calls' = [calls EXCEPT ![r] = Append(@, "llm")]
    /\ pc' = [pc EXCEPT ![r] = "TRANSCRIBED"]
    /\ UNCHANGED <<max_turns, log, callerVars, extractVars, appVars, backends, reset_seen, reply_text, spoken, result, response>>

\* a recognizer failure answered by calling the recognizer again
AsrFail_Retry(r) ==
    /\ pc[r] = "RECEIVED"
    /\ calls' = [calls EXCEPT ![r] = Append(@, "asr")]
    /\ UNCHANGED <<storeVars, callerVars, extractVars, appVars, backends, reset_seen, pc, conversation_id, transcript, conv_id,
                   history_msgs, reply_text, messages, spoken, result, response>>
\* the recognizer raises, or asyncio.wait_for times out
AsrFail(r) ==
    /\ pc[r] = "RECEIVED"
    /\ Fail(r, "asr")

\* the history list talk fetched, as (role, content) pairs again
HistoryPairs(msgs) == [i \in 1..Len(msgs) |-> Message(msgs[i].role, msgs[i].content)]
\* talk writing back the history it fetched before the generator ran, plus its
\* own pair, where the code appends to what the store holds now
LlmReturn_StaleWrite(r, reply) ==
    /\ pc[r] = "TRANSCRIBED"
    /\ reply_text' = [reply_text EXCEPT ![r] = reply]
    /\ conversations' =
          [setdefault(conversations, conv_id[r]) EXCEPT ![conv_id[r]] =
              LastN(HistoryPairs(history_msgs[r])
                        \o <<Message("user", transcript[r]), Message("assistant", reply)>>,
                    2 * max_turns)]
    /\ log' = [log EXCEPT ![conv_id[r]] =
                  @ \o <<Message("user", transcript[r]), Message("assistant", reply)>>]
    /\ calls' = [calls EXCEPT ![r] = Append(@, "tts")]
    /\ pc' = [pc EXCEPT ![r] = "REPLIED"]
    /\ reset_seen' = [reset_seen EXCEPT ![r] = FALSE]
    /\ backends' = [backends EXCEPT ![r] = <<synthesize_text_engine(voice_model_path)>>]
    /\ spoken' = [spoken EXCEPT ![r] = reply]
    /\ UNCHANGED <<max_turns, issued, callerVars, extractVars, appVars, conversation_id, transcript, conv_id,
                   history_msgs, messages, result, response>>
\* talk appending the turn only after synthesis, which this step starts
LlmReturn_AppendLater(r, reply) ==
    /\ pc[r] = "TRANSCRIBED"
    /\ reply_text' = [reply_text EXCEPT ![r] = reply]
    /\ calls' = [calls EXCEPT ![r] = Append(@, "tts")]
    /\ pc' = [pc EXCEPT ![r] = "REPLIED"]
    /\ reset_seen' = [reset_seen EXCEPT ![r] = FALSE]
    /\ backends' = [backends EXCEPT ![r] = <<synthesize_text_engine(voice_model_path)>>]
    /\ spoken' = [spoken EXCEPT ![r] = reply]
    /\ UNCHANGED <<storeVars, callerVars, extractVars, appVars, conversation_id, transcript, conv_id,
                   history_msgs, messages, result, response>>
\* talk leaving the turn out when the conversation is gone from the store
LlmReturn_SkipIfReset(r, reply) ==
    /\ pc[r] = "TRANSCRIBED"
    /\ reply_text' = [reply_text EXCEPT ![r] = reply]
    /\ IF conv_id[r] \in DOMAIN conversations
       THEN /\ conversations' = append_turn(conversations, max_turns, conv_id[r],
                                            transcript[r], reply)
            /\ log' = [log EXCEPT ![conv_id[r]] =
                          @ \o <<Message("user", transcript[r]), Message("assistant", reply)>>]
       ELSE UNCHANGED <<conversations, log>>
    /\ calls' = [calls EXCEPT ![r] = Append(@, "tts")]
    /\ pc' = [pc EXCEPT ![r] = "REPLIED"]
    /\ reset_seen' = [reset_seen EXCEPT ![r] = FALSE]
    /\ backends' = [backends EXCEPT ![r] = <<synthesize_text_engine(voice_model_path)>>]
    /\ spoken' = [spoken EXCEPT ![r] = reply]
    /\ UNCHANGED <<max_turns, issued, callerVars, extractVars, appVars, conversation_id, transcript,
                   conv_id, history_msgs, messages, result, response>>
\* generate_chat returns reply: append the turn, call synthesize_text with the
\* reply and await it
LlmReturn(r, reply) ==
    /\ pc[r] = "TRANSCRIBED"
    /\ IF append_turn_raises(conversations, conv_id[r])
       THEN Fail(r, KeyError)
       ELSE /\ reply_text' = [reply_text EXCEPT ![r] = reply]
            /\ conversations' = append_turn(conversations, max_turns, conv_id[r],
                                            transcript[r], reply)
            /\ log' = [log EXCEPT ![conv_id[r]] =
                          @ \o <<Message("user", transcript[r]), Message("assistant", reply)>>]
            /\ calls' = [calls EXCEPT ![r] = Append(@, "tts")]
            /\ pc' = [pc EXCEPT ![r] = "REPLIED"]
            /\ reset_seen' = [reset_seen EXCEPT ![r] = FALSE]
            /\ backends' = [backends EXCEPT ![r] = <<synthesize_text_engine(voice_model_path)>>]
            /\ spoken' = [spoken EXCEPT ![r] = reply]
            /\ UNCHANGED <<max_turns, issued, callerVars, extractVars, appVars, conversation_id, transcript,
                           conv_id, history_msgs, messages, result, response>>

\* a generator failure answered by synthesizing without a reply
LlmFail_SpeakAnyway(r) ==
    /\ pc[r] = "TRANSCRIBED"
    /\ calls' = [calls EXCEPT ![r] = Append(@, "tts")]
    /\ pc' = [pc EXCEPT ![r] = "REPLIED"]
    /\ reset_seen' = [reset_seen EXCEPT ![r] = FALSE]
    /\ backends' = [backends EXCEPT ![r] = <<synthesize_text_engine(voice_model_path)>>]
    /\ UNCHANGED <<storeVars, callerVars, extractVars, appVars, conversation_id, transcript, conv_id,
                   history_msgs, reply_text, messages, spoken, result, response>>
\* a generator failure answered by dropping the conversation the request
\* registered, where the code leaves the store alone
LlmFail_Unregister(r) ==
    /\ pc[r] = "TRANSCRIBED"
    /\ pc' = [pc EXCEPT ![r] = "FAILED"]
    /\ response' = [response EXCEPT ![r] = ErrorResponse("llm")]
    /\ conversations' = IF conv_id[r] \in DOMAIN conversations
                           /\ conversations[conv_id[r]] = <<>>
                        THEN reset(conversations, conv_id[r])
                        ELSE conversations
    /\ transcript' = [transcript EXCEPT ![r] = NoText]
    /\ conv_id' = [conv_id EXCEPT ![r] = None]
    /\ history_msgs' = [history_msgs EXCEPT ![r] = <<>>]
    /\ reply_text' = [reply_text EXCEPT ![r] = NoText]
    /\ messages' = [messages EXCEPT ![r] = <<>>]
    /\ spoken' = [spoken EXCEPT ![r] = NoText]
    /\ reset_seen' = [reset_seen EXCEPT ![r] = FALSE]
    /\ UNCHANGED <<max_turns, issued, log, callerVars, extractVars, appVars, backends,
                   conversation_id, calls, result>>
\* generate_chat raises: the HTTP call timed out or raise_for_status failed
LlmFail(r) ==
    /\ pc[r] = "TRANSCRIBED"
    /\ Fail(r, "llm")

\* synthesize_text returns audio: talk returns its TalkResult
TtsReturn(r) ==
    /\ pc[r] = "REPLIED"
    /\ engine_can_return(backends[r][Len(backends[r])], piper_path, voice_model_path)
    /\ result' = [result EXCEPT ![r] =
                     TalkResult(transcript[r], reply_text[r], "wav", conv_id[r])]
    /\ pc' = [pc EXCEPT ![r] = "SYNTHESIZED"]
    /\ transcript' = [transcript EXCEPT ![r] = NoText]
    /\ conv_id' = [conv_id EXCEPT ![r] = None]
    /\ history_msgs' = [history_msgs EXCEPT ![r] = <<>>]
    /\ reply_text' = [reply_text EXCEPT ![r] = NoText]
    /\ messages' = [messages EXCEPT ![r] = <<>>]
    /\ spoken' = [spoken EXCEPT ![r] = NoText]
    /\ UNCHANGED <<storeVars, callerVars, extractVars, appVars, backends, reset_seen, conversation_id, calls, response>>

\* a failed engine answered by invoking the other one, where the code lets
\* the exception leave synthesize_text
TtsFail_TrySecondary(r) ==
    /\ pc[r] = "REPLIED"
    /\ IF backends[r] = <<"piper">>
       THEN /\ backends' = [backends EXCEPT ![r] = Append(@, "say")]
            /\ UNCHANGED <<storeVars, callerVars, extractVars, appVars, reqVars, reset_seen>>
       ELSE Fail(r, "tts")
\* synthesize_text raises: the engine failed or its subprocess timed out
TtsFail(r) ==
    /\ pc[r] = "REPLIED"
    /\ Fail(r, "tts")

\* the endpoint answers: the audio as body, the texts and the id as headers
Respond(r) ==
    /\ pc[r] = "SYNTHESIZED"
    /\ response' = [response EXCEPT ![r] =
                       [status |-> 200,
                        body |-> result[r].audio_wav_bytes,
                        X_Transcript |-> result[r].transcript,
                        X_Reply |-> result[r].reply_text,
                        X_Conversation_Id |-> result[r].conversation_id]]
    /\ pc' = [pc EXCEPT ![r] = "DONE"]
    /\ UNCHANGED <<storeVars, callerVars, extractVars, appVars, backends, reset_seen, conversation_id, transcript, conv_id,
                   history_msgs, reply_text, messages, spoken, calls, result>>

\* POST /reset with conversation_id = id: Orchestrator.reset_conversation
ResetConversation(id) ==
    /\ app_state = "serving"
    /\ ~ reset_raises(conversations, id)
    /\ conversations' = reset(conversations, id)
    /\ log' = [log EXCEPT ![id] = <<>>]
    /\ reset_seen' = [r \in Reqs |->
                         reset_seen[r] \/ (pc[r] = "TRANSCRIBED" /\ conv_id[r] = id)]
    /\ UNCHANGED <<max_turns, issued, callerVars, extractVars, appVars, backends, reqVars>>

Next ==
    \/ \E r \in Reqs, cid \in KnownIds \cup {None, ""} : Talk(r, cid)
    \/ \E r \in Reqs : AsrReturn(r)
    \/ \E r \in Reqs : AsrFail(r)
    \/ \E r \in Reqs, reply \in Replies : LlmReturn(r, reply)
    \/ \E r \in Reqs : LlmFail(r)
    \/ \E r \in Reqs : TtsReturn(r)
    \/ \E r \in Reqs : TtsFail(r)
    \/ \E r \in Reqs : Respond(r)
    \/ \E id \in KnownIds : ResetConversation(id)

Spec == InitTalk /\ [][Next]_vars

(* SpecApp: the process from its start, under each of the settings *)
NextApp ==
    \/ Lifespan
    \/ Next

SpecApp == InitApp /\ [][NextApp]_vars

(* ------ SpecExtract: generate_chat from the response to the reply ------- *)
(* The chat endpoint answered; generate_chat takes the message content,    *)
(* tries it as JSON, strips the thinking markers, picks the final answer   *)
(* and returns. The content is any text IsContent admits.                  *)

\* the strings a JSON answer is made of
StrPool == {<<>>, <<" ">>, <<"a">>, <<" ", "a", " ">>, <<OpenMarker, "s", CloseMarker, "a">>}
KeyPool == {<<"final">>, <<"answer">>, <<"a">>}
Scalars == {JStr(t) : t \in StrPool} \cup {JNum, JNull}
\* the sequences over S of length 0..n
SeqsUpTo(S, n) == UNION {[1..k -> S] : k \in 0..n}
\* the dicts: up to MaxEntries members, a key possibly written twice
Dicts == {JDict(e) : e \in SeqsUpTo([k : KeyPool, v : Scalars], MaxEntries)}
\* what a list holds: scalars, a nested list, dicts of one member
ItemPool ==
    Scalars \cup {JList(<<JStr(<<"a">>)>>)}
        \cup {JDict(<<[k |-> k, v |-> v]>>) :
                 k \in {<<"final">>, <<"a">>}, v \in {JStr(<<"s">>), JStr(<<" ">>)}}
Lists == {JList(items) : items \in SeqsUpTo(ItemPool, MaxItems)}

\* the text of a JSON value, written as json.dumps writes it
RECURSIVE dumps(_), dumps_items(_), dumps_entries(_)
dumps(v) ==
    CASE v.type = "str" -> <<"\"">> \o v.text \o <<"\"">>
      [] v.type = "int" -> <<"1">>
      [] v.type = "NoneType" -> <<"null">>
      [] v.type = "list" -> <<"[">> \o dumps_items(v.items) \o <<"]">>
      [] v.type = "dict" -> <<"{">> \o dumps_entries(v.items) \o <<"}">>
dumps_items(items) ==
    IF items = <<>> THEN <<>>
    ELSE dumps(Head(items))
            \o (IF Len(items) > 1 THEN <<",", " ">> \o dumps_items(Tail(items)) ELSE <<>>)
dumps_entries(entries) ==
    IF entries = <<>> THEN <<>>
    ELSE <<"\"">> \o Head(entries).k \o <<"\"", ":", " ">> \o dumps(Head(entries).v)
            \o (IF Len(entries) > 1 THEN <<",", " ">> \o dumps_entries(Tail(entries))
                ELSE <<>>)

\* JSON answers, whole or cut short by the token limit
JsonTexts == {dumps(v) : v \in Dicts \cup Lists}
CutTexts == {SubSeq(t, 1, Len(t) - 1) : t \in JsonTexts}

\* the pieces a prose answer is made of
Chunks == {<<"a">>, <<"s">>, <<"plan">>, <<" ">>, <<"\n">>, <<"FINAL", ":">>,
           <<OpenMarker>>, <<CloseMarker>>, <<"plan", "\n", "\n">>}
RECURSIVE Concat(_)
Concat(ss) == IF ss = <<>> THEN <<>> ELSE Head(ss) \o Concat(Tail(ss))
ProseTexts == {Concat(ss) : ss \in SeqsUpTo(Chunks, MaxChunks)}

\* data["message"]["content"]: what the generator wrote
IsContent(c) == c \in JsonTexts \/ c \in CutTexts \/ c \in ProseTexts

\* the chat endpoint has answered with some content
InitExtract ==
    /\ InitOrchestrator(1)
    /\ IsContent(content)
    /\ raw_text = <<>>
    /\ parsed = NoneStr
    /\ cleaned = <<>>
    /\ final = <<>>
    /\ returned = NoneStr
    /\ at = "data"

\* raw_text = (message.get("content") or "").strip()
ReadContent ==
    /\ at = "data"
    /\ raw_text' = strip(content)
    /\ at' = "raw_text"
    /\ UNCHANGED <<storeVars, callerVars, reqVars, appVars, backends, reset_seen, content, parsed, cleaned, final, returned>>

\* parsed = self._parse_json_candidate(raw_text)
ParseCandidate ==
    /\ at = "raw_text"
    /\ parsed' = _parse_json_candidate(raw_text)
    /\ at' = "parsed"
    /\ UNCHANGED <<storeVars, callerVars, reqVars, appVars, backends, reset_seen, content, raw_text, cleaned, final, returned>>

\* if parsed: return parsed
ReturnParsed ==
    /\ at = "parsed"
    /\ ~ parsed.none /\ parsed.text # <<>>
    /\ returned' = Some(parsed.text)
    /\ at' = "returned"
    /\ UNCHANGED <<storeVars, callerVars, reqVars, appVars, backends, reset_seen, content, raw_text, parsed, cleaned, final>>

\* cleaned = self._strip_think_text(raw_text)
StripThink ==
    /\ at = "parsed"
    /\ parsed.none \/ parsed.text = <<>>
    /\ cleaned' = _strip_think_text(raw_text)
    /\ at' = "cleaned"
    /\ UNCHANGED <<storeVars, callerVars, reqVars, appVars, backends, reset_seen, content, raw_text, parsed, final, returned>>

\* final = self._extract_final(cleaned)
ExtractFinal ==
    /\ at = "cleaned"
    /\ final' = _extract_final(cleaned)
    /\ at' = "final"
    /\ UNCHANGED <<storeVars, callerVars, reqVars, appVars, backends, reset_seen, content, raw_text, parsed, cleaned, returned>>

\* the last line of generate_chat without its "or raw_text"
ReturnFinal_NoRawText ==
    /\ at = "final"
    /\ returned' = Some(Or(final, cleaned))
    /\ at' = "returned"
    /\ UNCHANGED <<storeVars, callerVars, reqVars, appVars, backends, reset_seen, content, raw_text, parsed, cleaned, final>>
\* return final or cleaned or raw_text
ReturnFinal ==
    /\ at = "final"
    /\ returned' = Some(Or(final, Or(cleaned, raw_text)))
    /\ at' = "returned"
    /\ UNCHANGED <<storeVars, callerVars, reqVars, appVars, backends, reset_seen, content, raw_text, parsed, cleaned, final>>

NextExtract ==
    \/ ReadContent
    \/ ParseCandidate
    \/ ReturnParsed
    \/ StripThink
    \/ ExtractFinal
    \/ ReturnFinal

SpecExtract == InitExtract /\ [][NextExtract]_vars

(* --------------------------- claims: the store --------------------------- *)

\* C1: in every reachable state of a store built with any max_turns >= 0,
\* every stored conversation holds at most 2 * max_turns messages.
C1_CapNeverExceeded ==
    \A id \in DOMAIN conversations : Len(conversations[id]) <= 2 * max_turns

\* C2: for every cap = 2 * max_turns >= 1, once the messages appended to an
\* id since it was empty (log[id]) outnumber the cap, get_history(id) returns
\* exactly cap messages: the last cap of the appended ones, in their order.
C2_OverflowKeepsMostRecent ==
    \A id \in AllIds :
        (2 * max_turns >= 1 /\ Len(log[id]) > 2 * max_turns)
            => /\ Len(get_history(conversations, id).val) = 2 * max_turns
               /\ get_history(conversations, id).val = LastN(log[id], 2 * max_turns)

\* three pairs went into one id of a store with max_turns = 2 and the history
\* is the last four of the six messages
C2_Witness ==
    \E id \in DOMAIN conversations :
        /\ max_turns = 2
        /\ Len(log[id]) = 6
        /\ conversations[id] = SubSeq(log[id], 3, 6)

\* C8: for every id, whatever the store held for it, reset(id) raises nothing
\* and a get_history(id) issued directly after it returns the empty sequence.
C8_ResetThenHistoryEmpty ==
    [][\A id \in AllIds :
          StoreReset(id) => /\ ret' # KeyError
                            /\ get_history(conversations', id).val = <<>>]_vars

\* the caller still holds turns it read earlier, and resets have emptied the dict
C8_Witness ==
    /\ conversations = <<>>
    /\ Len(snap.val) >= 2
    /\ snap.val[1] # Junk
    /\ ret = None

\* C9: get_history returns a copy. Changing the returned list leaves the
\* store as it is; append_turn and reset leave a list returned earlier as it
\* is; get_history of an unknown id returns the empty list and registers
\* nothing.
C9_HistoryIsACopy ==
    [][/\ conversations' = conversations \/ ~ \E m \in Mutations : MutateSnapshot(m)
       /\ snap'.val = snap.val
             \/ ~ \E id \in AllIds, p \in TurnPairs : StoreAppend(id, p[1], p[2])
       /\ snap'.val = snap.val \/ ~ \E id \in AllIds : StoreReset(id)
       /\ \A id \in AllIds \ DOMAIN conversations :
             StoreGetHistory(id) => /\ snap'.val = <<>>
                                    /\ DOMAIN conversations' = DOMAIN conversations]_vars

\* the caller appended to the list it got while the stored turns are unchanged
C9_Witness ==
    \E id \in DOMAIN conversations :
        /\ conversations[id] # <<>>
        /\ snap.val = Append(conversations[id], Junk)

\* C10: ensure_conversation_id with an id the store holds returns that id and
\* changes nothing; with no id (None or "") it returns an id the store did not
\* hold and registers an empty conversation for it; with a new id of the
\* caller's it returns that id and registers it empty.
C10_EnsureIdempotentOrFresh ==
    [][\A arg \in AllIds \cup {None, ""} :
          StoreEnsure(arg) =>
             IF arg \in DOMAIN conversations
             THEN ret' = arg /\ conversations' = conversations
             ELSE /\ ret' \notin DOMAIN conversations
                  /\ Falsy(arg) \/ ret' = arg
                  /\ conversations' = conversations @@ (ret' :> <<>>)]_vars

\* ensure_conversation_id("a") has just returned "a", whose turns are in place,
\* and an earlier call without an id registered a generated one
C10_Witness ==
    /\ ret = "a"
    /\ "a" \in DOMAIN conversations
    /\ conversations["a"] # <<>>
    /\ \E u \in issued : u \in DOMAIN conversations /\ conversations[u] = <<>>

(* ------------------------- claims: the extraction ------------------------ *)

\* position k of text t lies inside a thinking region: between an opening
\* marker and the closing marker nearest after it
InRegion(t, k) ==
    \E i \in 1..(k - 1), j \in (k + 1)..Len(t) :
        /\ t[i] = OpenMarker
        /\ t[j] = CloseMarker
        /\ \A m \in (i + 1)..(j - 1) : t[m] # CloseMarker
Occurs(x, t) == \E k \in 1..Len(t) : t[k] = x

\* C13: when generate_chat has returned, a word that the raw text holds only
\* inside thinking regions (every occurrence lies between an opening marker
\* and its closing marker) does not occur in the reply, whichever path
\* produced the reply.
C13_NoThinkingContentInReply ==
    at = "returned"
        => \A x \in WordSymbols :
              (/\ Occurs(x, content)
               /\ \A k \in 1..Len(content) : content[k] = x => InRegion(content, k))
                  => ~ Occurs(x, returned.text)

\* the raw text parses as a JSON object that binds "final" to a string
FinalString(text) ==
    LET out == json_loads(text)
        val == dict_get(out.val.items, <<"final">>)
    IN  IF out.ok /\ out.val.type = "dict" /\ val.type = "str" THEN Some(val.text)
        ELSE NoneStr

\* C14 as stated: for a raw text that parses as a JSON object binding "final"
\* to a string X, the reply is X trimmed, whatever the other keys.
C14_FinalKeyReturnsItsString ==
    at = "returned"
        => (~ FinalString(raw_text).none
               => returned.text = strip(FinalString(raw_text).text))

\* C14 amended: for a raw text that parses as a JSON object binding "final"
\* to a string X that is not empty or blank, the reply is X trimmed, whatever
\* the other keys and their order.
C14_NonBlankFinalKeyReturnsItsString ==
    at = "returned"
        => ((~ FinalString(raw_text).none /\ strip(FinalString(raw_text).text) # <<>>)
               => returned.text = strip(FinalString(raw_text).text))

\* the object {"answer": "<think>s</think>a", "final": " a "} gave "a"
C14_Witness ==
    /\ at = "returned"
    /\ content = dumps(JDict(<<[k |-> <<"answer">>,
                                v |-> JStr(<<OpenMarker, "s", CloseMarker, "a">>)],
                               [k |-> <<"final">>, v |-> JStr(<<" ", "a", " ">>)]>>))
    /\ returned = Some(<<"a">>)

\* the first index of the line position i of t is on
LineStart(t, i) ==
    LET breaks == {k \in 1..(i - 1) : t[k] = "\n"}
    IN  IF breaks = {} THEN 1 ELSE 1 + CHOOSE k \in breaks : \A m \in breaks : m <= k
\* the rest of its line after position j of t
RestOfLine(t, j) ==
    LET breaks == {k \in (j + 1)..Len(t) : t[k] = "\n"}
    IN  SubSeq(t, j + 1,
               IF breaks = {} THEN Len(t) ELSE (CHOOSE k \in breaks : \A m \in breaks : k <= m) - 1)
\* position i of t holds FINAL directly followed by a colon, with blanks
\* alone before it on its line
LabelLine(t, i) ==
    /\ t[i] \in FinalLabels
    /\ i < Len(t) /\ t[i + 1] = ":"
    /\ \A k \in LineStart(t, i)..(i - 1) : t[k] = " "

\* C15 as stated: for a raw text that is no JSON, whichever line starts,
\* after optional blanks, with FINAL: followed by an answer (text that is
\* not blank and holds no thinking marker), the reply is the rest of that
\* line trimmed.
C15_FinalLineReturnsItsRemainder ==
    (at = "returned" /\ ~ json_loads(raw_text).ok)
        => \A i \in 1..Len(content) :
              (/\ LabelLine(content, i)
               /\ strip(RestOfLine(content, i + 1)) # <<>>
               /\ \A x \in Markers : ~ Occurs(x, RestOfLine(content, i + 1)))
                  => returned.text = strip(RestOfLine(content, i + 1))

\* position i of t holds FINAL with blanks or line breaks alone between it and
\* a line start before it, and j holds the colon, with blanks or line breaks
\* alone between them
LabelAt(t, i, j) ==
    /\ t[i] \in FinalLabels
    /\ \E p \in 1..i : /\ p = 1 \/ t[p - 1] = "\n"
                       /\ \A k \in p..(i - 1) : t[k] \in Whitespace
    /\ j > i /\ t[j] = ":"
    /\ \A k \in (i + 1)..(j - 1) : t[k] \in Whitespace

\* C15 amended: for a raw text that is no JSON, take the text left once the
\* thinking regions and stray markers are removed, and in it the first place
\* where a line starts, after optional whitespace, with FINAL, optional
\* whitespace and a colon (in either case); if text that is not blank follows
\* the colon on its line, the reply is that text trimmed, whatever paragraphs
\* or lines come before or after.
C15_FirstFinalLabelReturnsItsRemainder ==
    (at = "returned" /\ ~ json_loads(raw_text).ok)
        => \A i \in 1..Len(cleaned), j \in 1..Len(cleaned) :
              (/\ LabelAt(cleaned, i, j)
               /\ \A m \in 1..(i - 1), n \in 1..Len(cleaned) : ~ LabelAt(cleaned, m, n)
               /\ strip(RestOfLine(cleaned, j)) # <<>>)
                  => returned.text = strip(RestOfLine(cleaned, j))

\* two paragraphs that look meta, then FINAL:a, gave "a"
C15_Witness ==
    /\ at = "returned"
    /\ content = <<"plan", "\n", "\n", "plan", "\n", "\n", "FINAL", ":", "a">>
    /\ returned = Some(<<"a">>)

\* C16: a raw text the JSON decoder rejects is no error but a candidate of
\* None, generate_chat returns a text on every path, and the reply it
\* returns is empty only if the raw text is empty or blank: a raw text
\* with anything in it (JSON cut short, JSON with no usable string, nothing
\* but a thinking region, nothing but meta lines) gives a reply that is not
\* empty.
C16_EmptyReplyOnlyForEmptyRaw ==
    /\ at \in {"parsed", "cleaned", "final", "returned"} /\ ~ json_loads(raw_text).ok
          => parsed = NoneStr
    /\ at = "returned"
          => /\ ~ returned.none
             /\ returned.text = <<>> => strip(content) = <<>>

\* a raw text that is one thinking region came back whole
C16_Witness ==
    /\ at = "returned"
    /\ content = <<OpenMarker, "s", CloseMarker>>
    /\ cleaned = <<>> /\ final = <<>>
    /\ returned = Some(content)

\* the raw text parses as a JSON array
ArrayItems(text) ==
    LET out == json_loads(text)
    IN  IF out.ok /\ out.val.type = "list" THEN out.val.items ELSE <<>>
\* an object binding a preferred key to a usable string
HoldsAnswer(item) ==
    /\ item.type = "dict"
    /\ \E n \in 1..Len(PreferredKeys) : UsableStr(dict_get(item.items, PreferredKeys[n]))

\* C17 as stated: for a raw text that parses as a JSON array, the reply is
\* the first element that is a string and not blank, trimmed, whatever
\* numbers, nulls, arrays, objects or blank strings come before it.
C17_FirstStringOfArray ==
    at = "returned"
        => \A i \in 1..Len(ArrayItems(raw_text)) :
              (/\ UsableStr(ArrayItems(raw_text)[i])
               /\ \A m \in 1..(i - 1) : ~ UsableStr(ArrayItems(raw_text)[m]))
                  => returned.text = strip(ArrayItems(raw_text)[i].text)

\* C17 amended: for a raw text that parses as a JSON array, the reply is the
\* first element that is a string and not blank, trimmed, provided the
\* elements before it are numbers, nulls, arrays, blank strings, or objects
\* that bind none of final, answer, output, response, result to a string that
\* is not blank.
C17_FirstStringOfArrayAfterNoAnswer ==
    at = "returned"
        => \A i \in 1..Len(ArrayItems(raw_text)) :
              (/\ UsableStr(ArrayItems(raw_text)[i])
               /\ \A m \in 1..(i - 1) : /\ ~ UsableStr(ArrayItems(raw_text)[m])
                                        /\ ~ HoldsAnswer(ArrayItems(raw_text)[m]))
                  => returned.text = strip(ArrayItems(raw_text)[i].text)

\* the array [{"a": "s"}, " ", " a "] gave "a"
C17_Witness ==
    /\ at = "returned"
    /\ content = dumps(JList(<<JDict(<<[k |-> <<"a">>, v |-> JStr(<<"s">>)]>>),
                               JStr(<<" ">>), JStr(<<" ", "a", " ">>)>>))
    /\ returned = Some(<<"a">>)

(* -------------------------- claims: the pipeline -------------------------- *)

UserAssistant(t, reply) == <<Message("user", t), Message("assistant", reply)>>

C4_RecognizerFailureLeavesStore ==
    [][\A r \in Reqs :
          /\ (pc[r] \in {"idle", "RECEIVED"} /\ pc'[r] \in {"RECEIVED", "FAILED"}
                  /\ pc'[r] # pc[r])
                => /\ conversations' = conversations
                   /\ issued' = issued
                   /\ calls'[r] = <<"asr">>
          /\ (pc[r] = "RECEIVED" /\ pc'[r] = "FAILED")
                => response'[r] = ErrorResponse("asr")
          /\ pc[r] = "FAILED" => pc'[r] = "FAILED" /\ calls'[r] = calls[r]]_vars

\* one request without an id and one with id "a" failed in recognition; the
\* store is empty
C4_Witness ==
    \E r1, r2 \in Reqs :
        /\ response[r1] = ErrorResponse("asr") /\ conversation_id[r1] = None
        /\ response[r2] = ErrorResponse("asr") /\ conversation_id[r2] = "a"
        /\ conversations = <<>>
        /\ issued = {}

\* C5: whatever the interleaving of the requests on an id, the conversation is
\* the sequence of pairs appended to it since it was last empty (log[id]: each
\* request's user message directly followed by its own reply, in the order the
\* generation calls returned), cut to its last 2 * max_turns messages: nothing
\* lost, duplicated or reordered within the cap, and never longer than the cap.
C5_ConcurrentAppendsKeepBothPairs ==
    \A id \in AllIds :
        IF id \in DOMAIN conversations
        THEN /\ conversations[id] = LastN(log[id], 2 * max_turns)
             /\ Len(conversations[id]) <= 2 * max_turns
        ELSE log[id] = <<>>

\* both requests fetched the empty history of the same id before either
\* appended, and both pairs are in the conversation
C5_Witness ==
    /\ pc[1] = "REPLIED" /\ pc[2] = "REPLIED"
    /\ conv_id[1] = conv_id[2]
    /\ history_msgs[1] = <<>> /\ history_msgs[2] = <<>>
    /\ Len(conversations[conv_id[1]]) = 4
    /\ \E k \in 1..2 : SubSeq(conversations[conv_id[1]], 1, 2)
                           = UserAssistant(Heard[k], reply_text[k])

\* the steps a request can take
Transitions ==
    {<<"idle", "RECEIVED">>, <<"RECEIVED", "TRANSCRIBED">>, <<"TRANSCRIBED", "REPLIED">>,
     <<"REPLIED", "SYNTHESIZED">>, <<"SYNTHESIZED", "DONE">>,
     <<"RECEIVED", "FAILED">>, <<"TRANSCRIBED", "FAILED">>, <<"REPLIED", "FAILED">>,
     <<"SYNTHESIZED", "FAILED">>}

\* C6: a request moves only along RECEIVED -> TRANSCRIBED -> REPLIED ->
\* SYNTHESIZED -> DONE, or from a non-terminal state to FAILED; DONE and FAILED
\* are left by no step. The generator has been called only in TRANSCRIBED and
\* later, with the recognizer's text in hand; synthesis only in REPLIED and
\* later, with the generator's reply in hand; and a turn is appended only by
\* the step from TRANSCRIBED to REPLIED.
C6_PipelineStateMachine ==
    [][/\ \A r \in Reqs :
             /\ pc'[r] # pc[r] => <<pc[r], pc'[r]>> \in Transitions
             /\ pc'[r] = "RECEIVED" => calls'[r] = <<"asr">>
             /\ pc'[r] = "TRANSCRIBED"
                   => calls'[r] = <<"asr", "llm">> /\ transcript'[r] = Heard[r]
             /\ pc'[r] = "REPLIED"
                   => /\ calls'[r] = <<"asr", "llm", "tts">>
                      /\ transcript'[r] = Heard[r]
                      /\ reply_text'[r] \in Replies
             /\ pc'[r] \in {"SYNTHESIZED", "DONE"} => calls'[r] = <<"asr", "llm", "tts">>
             /\ pc'[r] = "FAILED" => calls'[r] = calls[r]
       /\ (\E id \in AllIds : Len(log'[id]) > Len(log[id]))
             => \E r \in Reqs : pc[r] = "TRANSCRIBED" /\ pc'[r] = "REPLIED"]_vars

\* one request went all the way to DONE and the other failed in synthesis
C6_Witness ==
    \E r1, r2 \in Reqs :
        /\ pc[r1] = "DONE" /\ response[r1].status = 200
        /\ pc[r2] = "FAILED" /\ calls[r2] = <<"asr", "llm", "tts">>

IsPrefix(s, t) == Len(s) <= Len(t) /\ s = SubSeq(t, 1, Len(s))

\* C7: a request invokes the recognizer, the generator and synthesis at most
\* once each and in that order; a request that failed invoked nothing after
\* the stage that failed, has no TalkResult, and was answered by the error
\* response alone, which carries no transcript, reply or audio; only a request
\* that went through all three stages has a TalkResult.
C7_NoRetryNoPartialResult ==
    \A r \in Reqs :
        /\ IsPrefix(calls[r], <<"asr", "llm", "tts">>)
        /\ pc[r] = "FAILED"
              => /\ calls[r] # <<>>
                 /\ response[r] = ErrorResponse(calls[r][Len(calls[r])])
                 /\ result[r] = NoResult
        /\ result[r] # NoResult => pc[r] \in {"SYNTHESIZED", "DONE"}
        /\ response[r] # NoResponse => pc[r] \in {"DONE", "FAILED"}

\* one request failed in the generator and the other in synthesis
C7_Witness ==
    \E r1, r2 \in Reqs :
        /\ pc[r1] = "FAILED" /\ calls[r1] = <<"asr", "llm">>
        /\ pc[r2] = "FAILED" /\ calls[r2] = <<"asr", "llm", "tts">>
        /\ result[r1] = NoResult /\ result[r2] = NoResult

\* C11: the messages the generator receives are the system message, then the
\* conversation exactly as the store holds it when talk fetches it (in stored
\* order, the new transcript not among them), then the transcript as the user
\* message; the reply generate_chat returns is, unchanged, the assistant text
\* appended to the conversation, the text given to synthesis and the
\* TalkResult's reply_text; and the TalkResult carries the transcript and the
\* id under which the turn was appended.
C11_GeneratorInputAndResult ==
    [][\A r \in Reqs :
          /\ (pc[r] = "RECEIVED" /\ pc'[r] = "TRANSCRIBED")
                => /\ conv_id'[r] \in DOMAIN conversations'
                   /\ messages'[r] =
                         <<SystemMessage>>
                            \o HistoryMsgs(conversations'[conv_id'[r]])
                            \o <<[role |-> "user", content |-> transcript'[r]]>>
                   /\ log' = log
          /\ (pc[r] = "TRANSCRIBED" /\ pc'[r] = "REPLIED")
                => /\ log'[conv_id[r]]
                         = log[conv_id[r]] \o UserAssistant(transcript[r], reply_text'[r])
                   /\ spoken'[r] = reply_text'[r]
          /\ (pc[r] \in {"TRANSCRIBED", "REPLIED"} /\ pc'[r] \in {"TRANSCRIBED", "REPLIED"})
                => /\ conv_id'[r] = conv_id[r]
                   /\ transcript'[r] = transcript[r]
                   /\ messages'[r] = messages[r]
          /\ (pc[r] = "REPLIED" /\ pc'[r] = "REPLIED")
                => reply_text'[r] = reply_text[r] /\ spoken'[r] = spoken[r]
          /\ (pc[r] = "REPLIED" /\ pc'[r] = "SYNTHESIZED")
                => /\ result'[r].transcript = transcript[r]
                   /\ result'[r].reply_text = reply_text[r]
                   /\ result'[r].reply_text = spoken[r]
                   /\ result'[r].conversation_id = conv_id[r]]_vars

\* one request was answered under a generated id, and a second request on
\* that id has sent the generator the first one's pair as history
C11_Witness ==
    \E r1, r2 \in Reqs :
        /\ pc[r1] = "DONE" /\ response[r1].X_Conversation_Id \in issued
        /\ pc[r2] = "TRANSCRIBED" /\ conv_id[r2] = response[r1].X_Conversation_Id
        /\ Len(messages[r2]) = 4
        /\ messages[r2][2] = [role |-> "user", content |-> Heard[r1]]
        /\ messages[r2][4] = [role |-> "user", content |-> Heard[r2]]

\* C12: reset_conversation(id) can be called while talk requests for id are
\* suspended in recognition, generation or synthesis; directly after it
\* get_history(id) is empty and no request has changed state, and no request
\* ever fails but by the failure of its own recognizer, generator or
\* synthesis stage: a request whose conversation was reset goes on.
C12_ResetDuringInFlightRequest ==
    [][/\ \A id \in AllIds :
             (\/ (id \in DOMAIN conversations /\ id \notin DOMAIN conversations')
              \/ (log[id] # <<>> /\ log'[id] = <<>>))
                => /\ get_history(conversations', id).val = <<>>
                   /\ pc' = pc /\ response' = response /\ result' = result
       /\ \A r \in Reqs :
             (pc[r] # "FAILED" /\ pc'[r] = "FAILED")
                => \/ pc[r] = "RECEIVED" /\ response'[r] = ErrorResponse("asr")
                   \/ pc[r] = "TRANSCRIBED" /\ response'[r] = ErrorResponse("llm")
                   \/ pc[r] = "REPLIED" /\ response'[r] = ErrorResponse("tts")]_vars

\* with max_turns = 2: a request fetched a history of one pair, the
\* conversation was reset while the generator ran, and the request's append
\* made the conversation anew with its own pair alone
C12_Witness ==
    \E r \in Reqs :
        /\ max_turns = 2
        /\ pc[r] = "REPLIED"
        /\ Len(history_msgs[r]) = 2
        /\ conv_id[r] \in DOMAIN conversations
        /\ conversations[conv_id[r]] = UserAssistant(transcript[r], reply_text[r])

(* ----------------------- claims: synthesis and startup -------------------- *)

\* the engines synthesize_text has invoked for request r
Tried(r) == {backends[r][k] : k \in 1..Len(backends[r])}
\* the engine the configuration names
Configured == IF voice_model_path # "" THEN "piper" ELSE "say"
\* the settings tts.validate() raises on
Misconfigured == validate(piper_path, voice_model_path) = ValueError

\* C18 as stated: a request whose synthesis stage is reported failed after
\* the primary engine was invoked has had the secondary backend tried too.
C18_SecondaryTriedAfterPrimaryFails ==
    \A r \in Reqs :
        (response[r] = ErrorResponse("tts") /\ "piper" \in Tried(r))
            => "say" \in Tried(r)

\* C18: a call of synthesize_text invokes one engine, the one the
\* configuration names (the primary if a voice model path is set, else the
\* secondary); when the synthesis stage is reported failed that engine is
\* still the only one tried. Before the call no engine is invoked.
C18_OneEngineByConfiguration ==
    \A r \in Reqs :
        /\ (Len(calls[r]) > 0 /\ calls[r][Len(calls[r])] = "tts")
              => backends[r] = <<Configured>>
        /\ response[r] = ErrorResponse("tts") => backends[r] = <<Configured>>
        /\ (Len(calls[r]) = 0 \/ calls[r][Len(calls[r])] # "tts")
              => backends[r] = <<>>

\* the primary engine, validly configured, failed at run time: the request
\* failed in synthesis and say was never run
C18_Witness ==
    \E r \in Reqs :
        /\ ~ Misconfigured
        /\ response[r] = ErrorResponse("tts")
        /\ backends[r] = <<"piper">>

\* C19 as stated: with a voice model path that is set but missing, or set
\* with an empty engine path, no talk request is ever processed.
C19_MisconfiguredServesNoTraffic ==
    Misconfigured => \A r \in Reqs : pc[r] = "idle"

\* C19: with a voice model path that is set but missing, or set with an empty
\* engine path, the error is logged as a warning before any traffic is
\* served, and nothing more: once lifespan has run the service serves with
\* that configuration, and a talk request is processed only after the warning.
C19_MisconfiguredIsLoggedBeforeTraffic ==
    Misconfigured =>
        /\ app_state = "serving" => warnings = <<"TTS validation failed">>
        /\ \A r \in Reqs : pc[r] # "idle" => app_state = "serving"

\* the voice model is missing, the warning is logged, and the generator is
\* running for a request of the orchestrator that holds this configuration
C19_Witness ==
    /\ voice_model_path = "missing.onnx"
    /\ warnings = <<"TTS validation failed">>
    /\ \E r \in Reqs : pc[r] = "TRANSCRIBED"

\* C20: a configuration validate() raises on is logged and the service
\* serves; no request then gets audio, and a request meets the error as the
\* failure of its synthesis stage: when it starts synthesis it has called the
\* recognizer and the generator and its (transcript, reply) pair ends the
\* conversation, and it leaves synthesis only as a failed request with the
\* synthesis error, the store untouched.
C20_ConfigErrorSurfacesAtSynthesis ==
    /\ [](Misconfigured =>
            /\ app_state = "serving" => warnings # <<>>
            /\ \A r \in Reqs :
                  /\ pc[r] \notin {"SYNTHESIZED", "DONE"}
                  /\ response[r] = ErrorResponse("tts")
                        => calls[r] = <<"asr", "llm", "tts">>)
    /\ [][Misconfigured =>
            \A r \in Reqs :
               /\ (pc[r] = "TRANSCRIBED" /\ pc'[r] = "REPLIED")
                     => /\ calls'[r] = <<"asr", "llm", "tts">>
                        /\ conv_id[r] \in DOMAIN conversations'
                        /\ LastN(conversations'[conv_id[r]], 2)
                              = UserAssistant(transcript[r], reply_text'[r])
               /\ (pc[r] = "REPLIED" /\ pc'[r] # "REPLIED")
                     => /\ pc'[r] = "FAILED"
                        /\ response'[r] = ErrorResponse("tts")
                        /\ conversations' = conversations]_vars

\* the engine path is empty with a voice model set: the warning was logged,
\* the service served, and request 1 failed in synthesis with its pair stored
C20_Witness ==
    /\ piper_path = "" /\ voice_model_path # ""
    /\ warnings = <<"TTS validation failed">>
    /\ response[1] = ErrorResponse("tts")
    /\ "a" \in DOMAIN conversations
    /\ conversations["a"] = UserAssistant(Heard[1], "r1")

(* --------------------- claims: the store under requests ------------------- *)

\* C21: with max_turns >= 1, whatever talk requests and resets interleave and
\* however often the cap has cut a list, every stored conversation has even
\* length and is made of whole append_turn pairs: it is the end of what
\* append_turn has added for the id (two messages a call), so its messages
\* 2k-1 and 2k (counted from 1) are the user message and the assistant reply
\* of one call.
C21_ConversationsAlternateInPairs ==
    max_turns >= 1 =>
        \A id \in DOMAIN conversations :
            LET h == conversations[id]
            IN  /\ Len(h) % 2 = 0
                /\ Len(log[id]) % 2 = 0
                /\ h = LastN(log[id], Len(h))
                /\ \A k \in 1..(Len(h) \div 2) :
                      /\ h[2 * k - 1][1] = "user"
                      /\ h[2 * k][1] = "assistant"

\* the cap has cut conversation "a": the store holds the pair of the second
\* request, the pair of the first is gone
C21_Witness ==
    /\ "a" \in DOMAIN conversations
    /\ Len(log["a"]) > Len(conversations["a"])
    /\ Len(conversations["a"]) = 2 * max_turns
    /\ conversations["a"][1] = Message("user", Heard[2])

\* C22 as stated: a request whose conversation was reset while its generation
\* call was pending appends its pair when the call returns, and the
\* conversation is then exactly that pair; the generator was given the
\* history fetched before the reset.
C22_ResetThenExactlyOwnPair ==
    [][\A r \in Reqs :
          (reset_seen[r] /\ pc[r] = "TRANSCRIBED" /\ pc'[r] = "REPLIED")
             => /\ conv_id[r] \in DOMAIN conversations'
                /\ conversations'[conv_id[r]]
                      = UserAssistant(transcript[r], reply_text'[r])
                /\ messages[r] = ChatMessages(history_msgs[r], transcript[r])]_vars

\* C22: a request whose conversation was reset while its generation call was
\* pending appends its pair when the call returns, re-creating the
\* conversation if it is gone: the conversation then ends with that pair, and
\* before it holds only what other requests appended since the reset, so it
\* is exactly that pair when no other request appended in between; the
\* generator was given the history fetched before the reset.
C22_ResetThenOwnPairLast ==
    [][\A r \in Reqs :
          (reset_seen[r] /\ pc[r] = "TRANSCRIBED" /\ pc'[r] = "REPLIED")
             => /\ conv_id[r] \in DOMAIN conversations'
                /\ Len(conversations'[conv_id[r]]) >= 2
                /\ conversations'[conv_id[r]]
                      = LastN(log[conv_id[r]]
                                 \o UserAssistant(transcript[r], reply_text'[r]),
                              Len(conversations'[conv_id[r]]))
                /\ log[conv_id[r]] = <<>>
                      => conversations'[conv_id[r]]
                            = UserAssistant(transcript[r], reply_text'[r])
                /\ messages[r] = ChatMessages(history_msgs[r], transcript[r])]_vars

\* request 2 was given the pair of request 1 as history, the conversation was
\* reset while its generator ran, and its own pair is now all the store
\* holds for "a", below the cap
C22_Witness ==
    /\ max_turns >= 2
    /\ pc[2] = "REPLIED"
    /\ conv_id[2] = "a"
    /\ Len(messages[2]) = 4
    /\ "a" \in DOMAIN conversations
    /\ conversations["a"] = UserAssistant(Heard[2], reply_text[2])

\* C23: a request whose generator stage fails has called the recognizer and
\* the generator and nothing else, and gets the generator's error as its
\* response, with no TalkResult and so no conversation id. Its steps change
\* the store in one way only: resolving the id registers it, with an empty
\* history, if the store does not hold it (an id uuid4 made when the request
\* came with none), leaving every list as it is; the failure itself leaves
\* the store as it is, the id registered; once failed it calls nothing more.
C23_GeneratorFailureLeavesTurns ==
    [][\A r \in Reqs :
          /\ (pc[r] = "idle" /\ pc'[r] = "RECEIVED") => conversations' = conversations
          /\ (pc[r] = "RECEIVED" /\ pc'[r] = "TRANSCRIBED")
                => /\ conversations' = setdefault(conversations, conv_id'[r])
                   /\ IF Falsy(conversation_id[r])
                      THEN /\ conv_id'[r] \in Uuids \ issued
                           /\ conversations'[conv_id'[r]] = <<>>
                      ELSE conv_id'[r] = conversation_id[r]
          /\ (pc[r] = "TRANSCRIBED" /\ pc'[r] = "FAILED")
                => /\ conversations' = conversations
                   /\ calls'[r] = <<"asr", "llm">>
                   /\ response'[r] = ErrorResponse("llm")
                   /\ result'[r] = NoResult
          /\ (pc[r] = "FAILED" /\ response[r] = ErrorResponse("llm"))
                => pc'[r] = "FAILED" /\ calls'[r] = calls[r]]_vars

\* the only request so far came without an id and failed in generation: the
\* id made for it is registered with an empty history, and nothing else is
C23_Witness ==
    \E r \in Reqs :
        /\ response[r] = ErrorResponse("llm")
        /\ \A q \in Reqs \ {r} : pc[q] = "idle"
        /\ issued = {UuidPool[1]}
        /\ conversations = (UuidPool[1] :> <<>>)

=============================================================================
